---- MODULE Spec2Model ----
(***************************************************************************)
(* Causal reinforcement-learning core of the healthcare supply-chain       *)
(* repository: CausalGraph, BayesianNetworkInference and CausalOracle      *)
(* (src/src/healthcare_crl/models/causal_graph.py, variant "hc", and the   *)
(* older src/causal_graph.py, variant "legacy"), ReplayBuffer and          *)
(* CausalRLAgent (src/crl_agent.py).                                       *)
(*                                                                         *)
(* Numbers are fixed point.  Context values are in hundredths (0.9 is 90). *)
(* Epsilon and the random draw of act are in units of 1/EpsOne.            *)
(* Rewards and causal effects are in quarters.                             *)
(***************************************************************************)
EXTENDS Integers, Sequences, FiniteSets, TLC

VARIABLES
    variant,    \* which causal_graph.py the oracle comes from: "hc" or "legacy"
    dag,        \* CausalGraph.dag: the set of directed edges <<cause, effect>>
    built,      \* build_healthcare_dag has run
    bn,         \* BayesianNetworkInference: bn_model, inference_engine, fitted
    oq,         \* observation of the last causal-model call
    rb,         \* a ReplayBuffer: [buffer, maxlen]
    pushed,     \* every transition pushed into rb so far, in push order
    sampled,    \* result of the last ReplayBuffer call
    agent,      \* a CausalRLAgent: the attributes of self
    last,       \* observation of the last call on agent
    other,      \* a second CausalRLAgent, the one that loads the checkpoint
    last_other, \* observation of the last call on other
    checkpoint, \* the file save_model wrote
    phase       \* "training", "saved" (checkpoint written), "resumed" (loaded)

ovars == <<variant, dag, built, bn, oq>>

bvars == <<rb, pushed, sampled>>

avars == <<agent, last>>

rvars == <<other, last_other, checkpoint, phase>>

vars == <<ovars, bvars, avars, rvars>>

(***************************************************************************)
(* Bounds                                                                  *)
(***************************************************************************)
MaxFits == 2
MaxCtxKeys == 1
MaxCapacity == 3
MaxPushes == 4
MaxSteps == 4
MaxEpisodes == 1

(***************************************************************************)
(* CausalGraph                                                             *)
(***************************************************************************)
Variants == {"hc", "legacy"}

variable_domains_hc ==
    [lead_time_days |-> <<"short", "medium", "long", "very_long">>,
     on_time_delivery_pct |-> <<"low", "medium", "high", "excellent">>,
     supplier_reliability_score |-> <<"low", "medium", "high">>,
     stockout_frequency |-> <<"rare", "occasional", "frequent", "critical">>,
     freight_cost_level |-> <<"low", "medium", "high", "premium">>,
     disruption_type |-> <<"none", "flood", "covid_lockdown", "conflict", "port_closure", "cyber_attack">>,
     disruption_severity |-> <<"none", "low", "medium", "high", "extreme">>,
     lpi_score |-> <<"very_low", "low", "medium", "high", "very_high">>,
     customs_efficiency |-> <<"poor", "fair", "good", "excellent">>,
     infrastructure_quality |-> <<"poor", "fair", "good", "excellent">>,
     transport_mode |-> <<"air", "ocean", "land", "multimodal">>,
     warehouse_type |-> <<"public_depot", "rdc", "3pl", "coe">>,
     outcome_metric |-> <<"poor", "fair", "good", "excellent">>,
     switch_supplier |-> <<"no", "yes">>,
     increase_safety_stock |-> <<"no", "yes">>,
     emergency_procurement |-> <<"no", "yes">>,
     reroute_shipments |-> <<"no", "yes">>,
     allocate_resources |-> <<"no", "yes">>]

variable_domains_legacy ==
    [pandemic_severity |-> <<"none", "low", "medium", "high">>,
     hurricane_severity |-> <<"none", "low", "medium", "high">>,
     cyber_attack_severity |-> <<"none", "low", "medium", "high">>,
     port_closure_severity |-> <<"none", "low", "medium", "high">>,
     compound_disruption |-> <<"false", "true">>,
     supplier_reliability |-> <<"low", "medium", "high">>,
     inventory_level |-> <<"critical", "low", "normal", "high">>,
     lead_time |-> <<"short", "normal", "extended", "critical">>,
     transportation_capacity |-> <<"limited", "normal", "abundant">>,
     demand_surge |-> <<"none", "moderate", "high", "extreme">>,
     stockout_risk |-> <<"low", "medium", "high", "critical">>,
     cost_increase |-> <<"none", "low", "medium", "high">>,
     service_disruption |-> <<"none", "minor", "moderate", "severe">>,
     recovery_time |-> <<"fast", "normal", "slow", "very_slow">>,
     switch_supplier |-> <<"no", "yes">>,
     increase_safety_stock |-> <<"no", "yes">>,
     emergency_procurement |-> <<"no", "yes">>,
     reroute_shipments |-> <<"no", "yes">>,
     allocate_resources |-> <<"no", "yes">>]

variable_domains(v) == IF v = "hc" THEN variable_domains_hc ELSE variable_domains_legacy

causal_edges_hc ==
    << <<"disruption_type", "disruption_severity">>,
       <<"disruption_severity", "supplier_reliability_score">>,
       <<"disruption_severity", "lead_time_days">>,
       <<"disruption_severity", "freight_cost_level">>,
       <<"supplier_reliability_score", "on_time_delivery_pct">>,
       <<"lead_time_days", "on_time_delivery_pct">>,
       <<"lead_time_days", "stockout_frequency">>,
       <<"freight_cost_level", "transport_mode">>,
       <<"lpi_score", "lead_time_days">>,
       <<"customs_efficiency", "lead_time_days">>,
       <<"infrastructure_quality", "freight_cost_level">>,
       <<"transport_mode", "freight_cost_level">>,
       <<"transport_mode", "lead_time_days">>,
       <<"warehouse_type", "stockout_frequency">>,
       <<"warehouse_type", "on_time_delivery_pct">>,
       <<"lpi_score", "customs_efficiency">>,
       <<"infrastructure_quality", "customs_efficiency">>,
       <<"on_time_delivery_pct", "outcome_metric">>,
       <<"stockout_frequency", "outcome_metric">>,
       <<"freight_cost_level", "outcome_metric">>,
       <<"supplier_reliability_score", "outcome_metric">>,
       <<"switch_supplier", "supplier_reliability_score">>,
       <<"switch_supplier", "freight_cost_level">>,
       <<"increase_safety_stock", "stockout_frequency">>,
       <<"increase_safety_stock", "freight_cost_level">>,
       <<"emergency_procurement", "stockout_frequency">>,
       <<"emergency_procurement", "freight_cost_level">>,
       <<"reroute_shipments", "lead_time_days">>,
       <<"reroute_shipments", "transport_mode">>,
       <<"allocate_resources", "on_time_delivery_pct">>,
       <<"allocate_resources", "outcome_metric">> >>

causal_edges_legacy ==
    << <<"pandemic_severity", "demand_surge">>,
       <<"pandemic_severity", "supplier_reliability">>,
       <<"pandemic_severity", "transportation_capacity">>,
       <<"hurricane_severity", "transportation_capacity">>,
       <<"hurricane_severity", "supplier_reliability">>,
       <<"hurricane_severity", "port_closure_severity">>,
       <<"cyber_attack_severity", "supplier_reliability">>,
       <<"cyber_attack_severity", "lead_time">>,
       <<"port_closure_severity", "transportation_capacity">>,
       <<"port_closure_severity", "lead_time">>,
       <<"pandemic_severity", "compound_disruption">>,
       <<"hurricane_severity", "compound_disruption">>,
       <<"cyber_attack_severity", "compound_disruption">>,
       <<"supplier_reliability", "lead_time">>,
       <<"transportation_capacity", "lead_time">>,
       <<"demand_surge", "inventory_level">>,
       <<"lead_time", "inventory_level">>,
       <<"inventory_level", "stockout_risk">>,
       <<"lead_time", "stockout_risk">>,
       <<"compound_disruption", "stockout_risk">>,
       <<"stockout_risk", "service_disruption">>,
       <<"lead_time", "cost_increase">>,
       <<"demand_surge", "cost_increase">>,
       <<"service_disruption", "recovery_time">>,
       <<"cost_increase", "recovery_time">>,
       <<"compound_disruption", "recovery_time">>,
       <<"switch_supplier", "supplier_reliability">>,
       <<"switch_supplier", "cost_increase">>,
       <<"increase_safety_stock", "inventory_level">>,
       <<"increase_safety_stock", "cost_increase">>,
       <<"emergency_procurement", "inventory_level">>,
       <<"emergency_procurement", "cost_increase">>,
       <<"reroute_shipments", "lead_time">>,
       <<"reroute_shipments", "cost_increase">>,
       <<"allocate_resources", "service_disruption">> >>

causal_edges(v) == IF v = "hc" THEN causal_edges_hc ELSE causal_edges_legacy

\* add_edge with cause and effect swapped
add_edge_reversed(g, e) == g \cup {<<e[2], e[1]>>}

\* nx.DiGraph.add_edge: the edge joins the graph, whatever it closes.
add_edge(g, e) == g \cup {e}

RECURSIVE add_edges(_, _, _)
add_edges(g, es, i) ==
    IF i > Len(es) THEN g ELSE add_edges(add_edge(g, es[i]), es, i + 1)

\* CausalGraph.build_healthcare_dag: the loop over causal_edges.
build_healthcare_dag(g, v) == add_edges(g, causal_edges(v), 1)

Nodes(g) == {e[1] : e \in g} \cup {e[2] : e \in g}

\* a graph is acyclic iff repeatedly removing the nodes without incoming edge empties it
RECURSIVE Acyclic(_)
Acyclic(g) ==
    IF g = {} THEN TRUE
    ELSE LET sources == {n \in Nodes(g) : \A e \in g : e[2] # n}
         IN IF sources = {} THEN FALSE
            ELSE Acyclic({e \in g : e[1] \notin sources})

HasCycle(g) == ~Acyclic(g)

\* the nodes that directed paths of one or more edges lead to from the nodes of
\* frontier, over the edges add_edge put into g
RECURSIVE descendants(_, _, _)
descendants(g, frontier, seen) ==
    LET next == {e[2] : e \in {x \in g : x[1] \in frontier}} \ seen
    IN IF next = {} THEN seen ELSE descendants(g, next, seen \cup next)

(***************************************************************************)
(* Contexts: a mapping from key to a number (hundredths), a string or None *)
(***************************************************************************)
Num(n) == [t |-> "num", n |-> n, s |-> ""]
Str(s) == [t |-> "str", n |-> 0, s |-> s]
NoneValue == [t |-> "none", n |-> 0, s |-> ""]

CtxKeys == {"supplier_reliability", "supplier_reliability_score", "inventory_level",
            "stockout_risk", "transportation_capacity", "service_disruption"}

CtxValues == {Num(30), Num(60), Num(90), Str("high"), Str("High"), Str("limited"),
              Str("none"), NoneValue}

Contexts == UNION {[K -> CtxValues] : K \in {S \in SUBSET CtxKeys : Cardinality(S) <= MaxCtxKeys}}

EmptyContext == CHOOSE c \in Contexts : DOMAIN c = {}

\* str.lower() on the strings of CtxValues
Lower(s) == IF s = "High" THEN "high" ELSE s

\* str(value) of a value that is not a number
PyStr(val) == IF val.t = "none" THEN "None" ELSE val.s

(***************************************************************************)
(* CausalOracle                                                            *)
(***************************************************************************)
action_variables == <<"switch_supplier", "increase_safety_stock", "emergency_procurement",
                      "reroute_shipments", "allocate_resources">>

ActionNames == {action_variables[i] : i \in 1..Len(action_variables)}

discretization_rules ==
    [lead_time_days |-> [thresholds |-> <<3000, 6000, 9000>>,
                         labels |-> <<"short", "medium", "long", "very_long">>],
     on_time_delivery_pct |-> [thresholds |-> <<8000, 9000, 9500>>,
                               labels |-> <<"low", "medium", "high", "excellent">>],
     supplier_reliability_score |-> [thresholds |-> <<50, 80>>,
                                     labels |-> <<"low", "medium", "high">>],
     stockout_frequency |-> [thresholds |-> <<10, 20, 50>>,
                             labels |-> <<"rare", "occasional", "frequent", "critical">>],
     freight_cost_level |-> [thresholds |-> <<2500000, 5000000, 10000000>>,
                             labels |-> <<"low", "medium", "high", "premium">>],
     lpi_score |-> [thresholds |-> <<200, 300, 400>>,
                    labels |-> <<"very_low", "low", "medium", "high", "very_high">>],
     disruption_severity |-> [thresholds |-> <<100, 200, 400>>,
                              labels |-> <<"none", "low", "medium", "high", "extreme">>]]

\* the for/else loop over the thresholds: the first threshold the value does not exceed
RECURSIVE threshold_label(_, _, _, _)
threshold_label(n, thresholds, labels, i) ==
    IF i > Len(thresholds) THEN labels[Len(labels)]
    ELSE IF n <= thresholds[i] THEN labels[i]
    ELSE threshold_label(n, thresholds, labels, i + 1)

\* the generic bucketing of a number
generic_label(n) ==
    IF n < 25 THEN "low" ELSE IF n < 50 THEN "medium" ELSE IF n < 75 THEN "high" ELSE "very_high"

\* keys of the context that reach the converted context
converted_keys(v, ctx) ==
    IF v = "hc"
    THEN {k \in DOMAIN ctx :
            \/ k \in DOMAIN discretization_rules /\ ctx[k].t = "num"
            \/ k \in DOMAIN variable_domains_hc}
    ELSE {k \in DOMAIN ctx : k \in DOMAIN variable_domains_legacy}

\* converting one value raises (comparison of None with a float)
convert_raises(v, k, val) ==
    /\ v = "hc"
    /\ ~(k \in DOMAIN discretization_rules /\ val.t = "num")
    /\ k \in DOMAIN variable_domains_hc
    /\ val.t = "none"

convert_value(v, k, val) ==
    IF v = "hc"
    THEN IF k \in DOMAIN discretization_rules /\ val.t = "num"
         THEN threshold_label(val.n, discretization_rules[k].thresholds,
                              discretization_rules[k].labels, 1)
         ELSE IF val.t = "str" THEN Lower(val.s) ELSE generic_label(val.n)
    ELSE IF val.t = "num" THEN generic_label(val.n) ELSE PyStr(val)

\* CausalOracle._convert_context: [raised, ctx]
convert_context(v, ctx) ==
    LET K == converted_keys(v, ctx)
    IN IF \E k \in K : convert_raises(v, k, ctx[k])
       THEN [raised |-> TRUE, ctx |-> << >>]
       ELSE [raised |-> FALSE, ctx |-> [k \in K |-> convert_value(v, k, ctx[k])]]

Get(c, k, default) == IF k \in DOMAIN c THEN c[k] ELSE default

\* the lambdas of feasibility_rules
feasibility_rule(action, c) ==
    CASE action = "switch_supplier" -> Get(c, "supplier_reliability", "high") # "high"
      [] action = "increase_safety_stock" -> Get(c, "inventory_level", "normal") # "high"
      [] action = "emergency_procurement" ->
            Get(c, "stockout_risk", "low") \in {"medium", "high", "critical"}
      [] action = "reroute_shipments" -> Get(c, "transportation_capacity", "normal") = "limited"
      [] action = "allocate_resources" -> Get(c, "service_disruption", "none") # "none"
      [] OTHER -> TRUE

\* CausalOracle.is_feasible: [raised, value]
is_feasible(v, action, ctx) ==
    LET cc == convert_context(v, ctx)
    IN IF cc.raised THEN [raised |-> TRUE, value |-> FALSE]
       ELSE [raised |-> FALSE, value |-> feasibility_rule(action, cc.ctx)]

\* CausalOracle.legal_actions: [raised, value], value the list of feasible action names
legal_actions(v, ctx) ==
    IF \E i \in 1..Len(action_variables) : is_feasible(v, action_variables[i], ctx).raised
    THEN [raised |-> TRUE, value |-> << >>]
    ELSE [raised |-> FALSE,
          value |-> SelectSeq(action_variables, LAMBDA a : is_feasible(v, a, ctx).value)]

\* CausalOracle._get_primary_outcome
get_primary_outcome(v, action) ==
    IF v = "hc"
    THEN CASE action = "switch_supplier" -> "supplier_reliability_score"
           [] action = "increase_safety_stock" -> "stockout_frequency"
           [] action = "emergency_procurement" -> "stockout_frequency"
           [] action = "reroute_shipments" -> "lead_time_days"
           [] action = "allocate_resources" -> "on_time_delivery_pct"
           [] OTHER -> "outcome_metric"
    ELSE CASE action = "switch_supplier" -> "supplier_reliability"
           [] action = "increase_safety_stock" -> "stockout_risk"
           [] action = "emergency_procurement" -> "stockout_risk"
           [] action = "reroute_shipments" -> "lead_time"
           [] action = "allocate_resources" -> "service_disruption"
           [] OTHER -> "recovery_time"

(***************************************************************************)
(* BayesianNetworkInference.  bn_model and inference_engine are 0 for None *)
(* and k for the network built by the k-th fit (the engine: over network   *)
(* k).  The library calls whose outcome depends on the data are inputs:    *)
(* est (MaximumLikelihoodEstimator construction), check (check_model) and  *)
(* the result q of the two inference queries.                              *)
(***************************************************************************)
\* cpds is the set of CPDs the network bn_model holds.
NewInference ==
    [bn_model |-> 0, inference_engine |-> 0, fitted |-> FALSE, fits |-> 0, cpds |-> {}]

EstOutcomes == {"ok", "raise"}
CheckOutcomes == {"true", "false", "raise"}

\* the network constructor of pgmpy refuses an edge list with a cycle
network_constructs(g) == ~HasCycle(g)

\* bn_model.predecessors(variable)
predecessors(g, variable) == {e[1] : e \in {x \in g : x[2] = variable}}

\* len(self.causal_graph.variable_domains.get(variable, ['low', 'high']))
domain_size(v, variable) ==
    IF variable \in DOMAIN variable_domains(v) THEN Len(variable_domains(v)[variable]) ELSE 2

\* np.prod(parent_cards)
RECURSIVE prod_cards(_, _)
prod_cards(v, parents) ==
    IF parents = {} THEN 1
    ELSE LET p == CHOOSE x \in parents : TRUE
         IN domain_size(v, p) * prod_cards(v, parents \ {p})

\* the CPD estimator.estimate_cpd returns; its table depends on the data
estimate_cpd(g, variable) ==
    [variable |-> variable, kind |-> "mle", variable_card |-> 0,
     evidence |-> predecessors(g, variable), columns |-> 0, one_over |-> 0]

\* bn_model.add_cpds: a CPD for a variable that already has one takes its place
add_cpds(cpds, cpd) == {c \in cpds : c.variable # cpd.variable} \cup {cpd}

\* a fallback that adds nothing for the variable
add_uniform_cpd_skipped(v, g, cpds, variable) == cpds

\* BayesianNetworkInference._add_uniform_cpd: a table of variable_card rows and
\* columns columns, every entry np.ones(...) / domain_size = 1 / one_over
add_uniform_cpd(v, g, cpds, variable) ==
    LET size == domain_size(v, variable)
        parents == predecessors(g, variable)
    IN add_cpds(cpds,
                [variable |-> variable, kind |-> "uniform", variable_card |-> size,
                 evidence |-> parents, columns |-> prod_cards(v, parents),
                 one_over |-> size])

\* the loop of fit over bn_model.nodes(); failing holds the variables whose
\* estimate_cpd raises
RECURSIVE fit_cpds(_, _, _, _, _)
fit_cpds(v, g, todo, failing, cpds) ==
    IF todo = {} THEN cpds
    ELSE LET variable == CHOOSE x \in todo : TRUE
         IN fit_cpds(v, g, todo \ {variable}, failing,
                     IF variable \in failing
                     THEN add_uniform_cpd(v, g, cpds, variable)
                     ELSE add_cpds(cpds, estimate_cpd(g, variable)))

\* BayesianNetworkInference.fit: [bn, raised]
fit(v, g, b, est, failing, check) ==
    LET k == b.fits + 1
        counted == [b EXCEPT !.fits = k]
        built_net == [counted EXCEPT !.bn_model = k, !.cpds = {}]
        made == IF est = "raise" THEN built_net
                ELSE [built_net EXCEPT !.cpds = fit_cpds(v, g, Nodes(g), failing, {})]
    IN IF ~network_constructs(g)
       THEN IF v = "hc"
            THEN [bn |-> [counted EXCEPT !.bn_model = 0, !.inference_engine = 0,
                                         !.fitted = FALSE, !.cpds = {}],
                  raised |-> FALSE]
            ELSE [bn |-> counted, raised |-> TRUE]
       ELSE IF est = "raise" THEN [bn |-> made, raised |-> TRUE]
       ELSE IF check = "raise" THEN [bn |-> made, raised |-> TRUE]
       ELSE IF check = "true"
            THEN [bn |-> [made EXCEPT !.inference_engine = k, !.fitted = TRUE],
                  raised |-> FALSE]
            ELSE [bn |-> made, raised |-> FALSE]

\* the list the code sums the probability mass over (named negative_states there)
negative_states == {"low", "none", "fast", "normal"}

RaiseOutcome == [kind |-> "raise", yes |-> "", no |-> ""]

\* results of the two queries: both succeed, each a point mass on one state of the
\* outcome, or the first one raises
QueryOutcomes(v, outcome) ==
    LET dom == variable_domains(v)[outcome]
        labels == {dom[i] : i \in 1..Len(dom)}
    IN {RaiseOutcome} \cup {[kind |-> "ok", yes |-> a, no |-> b] : a \in labels, b \in labels}

Mass(label) == IF label \in negative_states THEN 4 ELSE 0

\* estimate_causal_effect without the fitted guard, the engine taken as present
estimate_causal_effect_unguarded(b, action, outcome, evidence, q) ==
    IF q.kind = "raise" THEN [value |-> 0, queried |-> 1]
    ELSE [value |-> Mass(q.no) - Mass(q.yes), queried |-> 2]

\* BayesianNetworkInference.estimate_causal_effect: [value, queried]
estimate_causal_effect(b, action, outcome, evidence, q) ==
    IF ~b.fitted THEN [value |-> 0, queried |-> 0]
    ELSE IF b.inference_engine = 0 THEN [value |-> 0, queried |-> 0]
    ELSE IF q.kind = "raise" THEN [value |-> 0, queried |-> 1]
    ELSE [value |-> Mass(q.no) - Mass(q.yes), queried |-> 2]

\* results of the two queries of counterfactual_analysis: the largest probability of
\* each distribution (quarters), or a query raises
CounterfactualOutcomes ==
    {[kind |-> "raise", factual |-> 0, counterfactual |-> 0]}
    \cup {[kind |-> "ok", factual |-> f, counterfactual |-> c] : f \in {2, 4}, c \in {2, 4}}

\* BayesianNetworkInference.counterfactual_analysis: the dict returned, key -> value
counterfactual_analysis(b, action, outcome, observed_data, q) ==
    IF ~b.fitted
    THEN [k \in {"counterfactual_probability", "factual_probability"} |-> 0]
    ELSE IF b.inference_engine = 0 \/ q.kind = "raise"
         THEN [k \in {"counterfactual_probability", "factual_probability", "causal_effect"}
                 |-> 0]
         ELSE [k \in {"factual_probability", "counterfactual_probability", "causal_effect"}
                 |-> CASE k = "factual_probability" -> q.factual
                       [] k = "counterfactual_probability" -> q.counterfactual
                       [] OTHER -> q.counterfactual - q.factual]

\* CausalOracle.effect: [raised, value, queried]
effect(v, b, action, ctx, q) ==
    LET cc == convert_context(v, ctx)
        r == estimate_causal_effect(b, action, get_primary_outcome(v, action), cc.ctx, q)
    IN IF cc.raised THEN [raised |-> TRUE, value |-> 0, queried |-> 0]
       ELSE [raised |-> FALSE, value |-> r.value, queried |-> r.queried]

\* CausalOracle.uplift: return self.effect(action, context)
uplift(v, b, action, ctx, q) == effect(v, b, action, ctx, q)

\* the elements of a sequence
Range(f) == {f[i] : i \in DOMAIN f}

\* smallest and largest value of a data column
ColumnMin(col) == CHOOSE x \in Range(col) : \A y \in Range(col) : x <= y
ColumnMax(col) == CHOOSE x \in Range(col) : \A y \in Range(col) : y <= x

\* BayesianNetworkInference._preprocess_data on one value x of a numeric column:
\* pd.cut(column, bins=4, labels=[...]), four bins of equal width between the
\* smallest and the largest value of the column, each closed on the right
preprocess_label(x, col) ==
    LET lo == ColumnMin(col)
        hi == ColumnMax(col)
        labels == <<"low", "medium", "high", "very_high">>
        bin == CHOOSE i \in 1..4 :
                 /\ 4 * (x - lo) <= i * (hi - lo)
                 /\ i = 1 \/ 4 * (x - lo) > (i - 1) * (hi - lo)
    IN labels[bin]

\* create_healthcare_causal_model: the inference state it leaves
create_inference(v, g, withData, est, failing, check) ==
    IF withData THEN fit(v, g, NewInference, est, failing, check)
    ELSE [bn |-> [NewInference EXCEPT !.fitted = TRUE], raised |-> FALSE]

(***************************************************************************)
(* ReplayBuffer (src/crl_agent.py)                                         *)
(***************************************************************************)
Experience(state, action, reward, next_state, done, causal_effect) ==
    [state |-> state, action |-> action, reward |-> reward, next_state |-> next_state,
     done |-> done, causal_effect |-> causal_effect]

\* ReplayBuffer.__init__: deque(maxlen=capacity)
ReplayBuffer(capacity) == [buffer |-> << >>, maxlen |-> capacity]

\* deque.append dropping the newest element when full
push_drop_newest(b, e) ==
    IF Len(b.buffer) >= b.maxlen THEN b
    ELSE [b EXCEPT !.buffer = Append(b.buffer, e)]

\* ReplayBuffer.push: deque.append on a deque with maxlen
push(b, e) ==
    IF b.maxlen = 0 THEN b
    ELSE IF Len(b.buffer) = b.maxlen
         THEN [b EXCEPT !.buffer = Append(Tail(b.buffer), e)]
         ELSE [b EXCEPT !.buffer = Append(b.buffer, e)]

\* random._randbelow(m) as a function of the raw draw
randbelow(d, m) == d % m

\* a sampler that draws every position from the whole population
RECURSIVE sample_positions_replacing(_, _, _, _, _)
sample_positions_replacing(pool, n, k, ds, i) ==
    IF i > k THEN << >>
    ELSE <<pool[randbelow(ds[i], n) + 1]>> \o
         sample_positions_replacing(pool, n, k, ds, i + 1)

\* random.sample's pool loop: result[i] = pool[j]; pool[j] = pool[n - i - 1]
RECURSIVE sample_positions(_, _, _, _, _)
sample_positions(pool, n, k, ds, i) ==
    IF i > k THEN << >>
    ELSE LET j == randbelow(ds[i], n - i + 1) + 1
         IN <<pool[j]>> \o
            sample_positions([pool EXCEPT ![j] = pool[n - i + 1]], n, k, ds, i + 1)

\* ReplayBuffer.sample: random.sample(self.buffer, batch_size); ds are the raw draws
sample(b, batch_size, ds) ==
    LET n == Len(b.buffer)
    IN IF batch_size < 0 \/ batch_size > n
       THEN [op |-> "sample", size |-> batch_size, raised |-> TRUE, positions |-> << >>,
             batch |-> << >>]
       ELSE LET pos == sample_positions([i \in 1..n |-> i], n, batch_size, ds, 1)
            IN [op |-> "sample", size |-> batch_size, raised |-> FALSE, positions |-> pos,
                batch |-> [i \in 1..batch_size |-> b.buffer[pos[i]]]]

NoResult == [op |-> "none", size |-> 0, raised |-> FALSE, positions |-> << >>, batch |-> << >>]

(***************************************************************************)
(* DQNetwork.  The arithmetic of the network is not modelled: a parameter  *)
(* set is an identifier, and the forward pass, the loss and the optimizer  *)
(* step are fixed functions of their arguments.  The three Dropout(0.2)    *)
(* layers stay in training mode (the agent never calls eval()), so the     *)
(* forward pass also reads the dropout mask drawn, drop.                   *)
(***************************************************************************)
ThetaIds == 0..3

DropDraws == {0, 1}

StateIds == {0, 1}

\* DQNetwork.forward: one value per action
forward(theta, n, st, drop) ==
    [i \in 1..n |-> ((theta + 1) * i * 3 + st * (i + 1) + drop * (n + 1 - i) * 2) % 7]

\* the loss of one gradient step
loss_of(theta, target, batch, drop) ==
    (theta + 2 * target + drop + Len(batch)) % 3

RECURSIVE batch_sum(_, _)
batch_sum(batch, i) ==
    IF i > Len(batch) THEN 0
    ELSE batch[i].state + batch[i].action + batch[i].reward + 2 * batch[i].next_state
         + (IF batch[i].done THEN 1 ELSE 0) + batch_sum(batch, i + 1)

\* the online parameters after optimizer.step()
step_theta(theta, target, opt, batch, drop) ==
    (theta + 1 + ((target + opt + drop + batch_sum(batch, 1)) % 3)) % 4

(***************************************************************************)
(* CausalRLAgent                                                           *)
(***************************************************************************)
\* one in units of epsilon and of random.random()
EpsOne == 2 ^ 12

\* values random.random() returns: 0.0, 0.5 and the largest value below 1.0
RandomDraws == {0, EpsOne \div 2, EpsOne - 1}

action_mapping == <<"switch_supplier", "increase_safety_stock", "emergency_procurement",
                    "reroute_shipments", "allocate_resources", "no_action">>

\* self.action_mapping.get(action, 'no_action')
action_name(a) == IF a + 1 \in DOMAIN action_mapping THEN action_mapping[a + 1] ELSE "no_action"

EmptyMetrics == [losses |-> << >>, rewards |-> << >>, causal_effects |-> << >>,
                 epsilon_values |-> << >>]

\* CausalRLAgent.__init__; q0 and t0 are the two random initialisations
NewAgent(c, q0, t0) ==
    [action_size |-> c.action_size,
     causal_oracle |-> c.causal_oracle,
     epsilon |-> c.epsilon_start,
     epsilon_end |-> c.epsilon_end,
     epsilon_decay |-> c.epsilon_decay,
     causal_lambda |-> c.causal_lambda,
     use_action_masking |-> c.use_action_masking,
     use_reward_shaping |-> c.use_reward_shaping,
     batch_size |-> c.batch_size,
     target_update_freq |-> c.target_update_freq,
     q_network |-> q0,
     target_network |-> t0,
     optimizer |-> 0,
     replay_buffer |-> ReplayBuffer(c.buffer_size),
     step_count |-> 0,
     episode_count |-> 0,
     training_metrics |-> EmptyMetrics]

\* the loop of _get_causal_action_mask raises: an index past the mask, or the oracle
mask_raises(ag, v, ctx) ==
    /\ ag.causal_oracle
    /\ \/ ag.action_size < Len(action_mapping)
       \/ \E i \in 1..(Len(action_mapping) - 1) : is_feasible(v, action_mapping[i], ctx).raised

\* CausalRLAgent._get_causal_action_mask (when it does not raise)
get_causal_action_mask(ag, v, ctx) ==
    LET filled == [i \in 1..ag.action_size |->
                     IF ~ag.causal_oracle THEN 1
                     ELSE IF i \notin DOMAIN action_mapping THEN 0
                     ELSE IF action_mapping[i] = "no_action" THEN 1
                     ELSE IF is_feasible(v, action_mapping[i], ctx).value THEN 1 ELSE 0]
    IN IF \A i \in 1..ag.action_size : filled[i] = 0
       THEN [filled EXCEPT ![ag.action_size] = 1]
       ELSE filled

\* np.argmax of the Q-values as the network returns them
argmax_raw(qv, mask) ==
    (CHOOSE i \in 1..Len(qv) :
        \A j \in 1..Len(qv) : qv[j] < qv[i] \/ (qv[j] = qv[i] /\ i <= j)) - 1

\* np.argmax of the Q-values with the masked-out entries at -inf: the first index of
\* the largest finite entry, index 0 when every entry is -inf
argmax_masked(qv, mask) ==
    LET open == {i \in 1..Len(qv) : mask[i] = 1}
    IN IF open = {} THEN 0
       ELSE (CHOOSE i \in open :
                \A j \in open : qv[j] < qv[i] \/ (qv[j] = qv[i] /\ i <= j)) - 1

\* np.where(mask == 1)[0], ascending
valid_actions(mask) ==
    LET RECURSIVE collect(_)
        collect(i) == IF i > Len(mask) THEN << >>
                      ELSE (IF mask[i] = 1 THEN <<i - 1>> ELSE << >>) \o collect(i + 1)
    IN collect(1)

NoMask == << >>

\* what one call of act was given and what it did
ActResult(ctx, maskArg, raised, action, mask, greedy) ==
    [op |-> "act", ctx |-> ctx, given |-> maskArg, raised |-> raised, action |-> action,
     mask |-> mask, greedy |-> greedy, causal_effect |-> 0, again |-> 0, same_q |-> TRUE,
     query |-> RaiseOutcome, called |-> FALSE]

\* CausalRLAgent.act.  maskArg is the mask argument (NoMask for None), r the value of
\* random.random(), drop the dropout draw, pick the draw of np.random.
act(ag, v, st, ctx, maskArg, r, drop, pick) ==
    LET compute == ag.use_action_masking /\ ag.causal_oracle /\ maskArg = NoMask
    IN IF compute /\ mask_raises(ag, v, ctx)
       THEN ActResult(ctx, maskArg, TRUE, 0, << >>, FALSE)
       ELSE LET mask == IF compute THEN get_causal_action_mask(ag, v, ctx)
                        ELSE IF maskArg = NoMask THEN [i \in 1..ag.action_size |-> 1]
                        ELSE maskArg
            IN IF r > ag.epsilon
               THEN ActResult(ctx, maskArg, FALSE,
                              argmax_masked(forward(ag.q_network, ag.action_size, st, drop), mask),
                              mask, TRUE)
               ELSE LET valid == valid_actions(mask)
                    IN IF Len(valid) > 0
                       THEN ActResult(ctx, maskArg, FALSE, valid[(pick % Len(valid)) + 1],
                                      mask, FALSE)
                       ELSE ActResult(ctx, maskArg, FALSE, pick % ag.action_size, mask, FALSE)

\* the reward after shaping: causal_lambda is held in halves, rewards in quarters
shaped_reward(ag, reward, causal_effect) == reward + (ag.causal_lambda * causal_effect) \div 2

\* learn computes a causal effect for this call
shapes(ag, a, ctx) ==
    /\ ag.use_reward_shaping
    /\ ag.causal_oracle
    /\ ctx # EmptyContext
    /\ action_name(a) # "no_action"

\* self.q_network(states).gather(1, actions.unsqueeze(1)): an action index of the batch
\* that is not a column of the network's output raises
gather_raises(ag, batch) == \E i \in 1..Len(batch) : batch[i].action >= ag.action_size

\* CausalRLAgent._train_step; ds are the draws of random.sample.  The result holds the
\* agent after the call and whether the call raised: nothing is assigned before the
\* optimizer step, so a call that raises leaves the agent as it was.
train_step(ag, ds, drop) ==
    LET sampled1 == sample(ag.replay_buffer, ag.batch_size, ds)
        batch == sampled1.batch
    IN IF sampled1.raised \/ gather_raises(ag, batch)
       THEN [agent |-> ag, raised |-> TRUE]
       ELSE [agent |->
               [ag EXCEPT
                  !.q_network = step_theta(ag.q_network, ag.target_network, ag.optimizer,
                                           batch, drop),
                  !.optimizer = ag.optimizer + 1,
                  !.training_metrics.losses =
                      Append(@, loss_of(ag.q_network, ag.target_network, batch, drop))],
             raised |-> FALSE]

\* CausalRLAgent._update_target_network
update_target_network(ag) == [ag EXCEPT !.target_network = ag.q_network]

\* the training interval of learn
TrainEvery == 4

\* epsilon left as it is
undecayed(ag) == ag.epsilon

\* epsilon * epsilon_decay: epsilon_decay is held in halves
decayed(ag) == (ag.epsilon * ag.epsilon_decay) \div 2

\* the decay step of learn without the floor
next_epsilon_unfloored(ag) == decayed(ag)

\* max(self.epsilon_end, self.epsilon * self.epsilon_decay)
next_epsilon(ag) == IF ag.epsilon_end >= decayed(ag) THEN ag.epsilon_end ELSE decayed(ag)

\* the training interval alone, without the length check
train_due_unguarded(ag) == ag.step_count % TrainEvery = 0

\* len(self.replay_buffer) >= self.batch_size and self.step_count % 4 == 0
train_due(ag) ==
    /\ Len(ag.replay_buffer.buffer) >= ag.batch_size
    /\ ag.step_count % TrainEvery = 0

\* learn from the push on with the target update placed before the training step
learn_from_sync_first(ag, st, a, reward, next_state, done, causal_effect, ds, drop) ==
    LET pushed1 == [ag EXCEPT
                     !.replay_buffer =
                         push(@, Experience(st, a, shaped_reward(ag, reward, causal_effect),
                                            next_state, done, causal_effect)),
                     !.step_count = @ + 1]
        synced  == IF pushed1.step_count % pushed1.target_update_freq = 0
                   THEN update_target_network(pushed1)
                   ELSE pushed1
        trained == IF train_due(synced)
                   THEN train_step(synced, ds, drop)
                   ELSE [agent |-> synced, raised |-> FALSE]
        eps     == next_epsilon(trained.agent)
    IN IF trained.raised THEN trained
       ELSE [agent |->
               [trained.agent EXCEPT
                  !.epsilon = eps,
                  !.training_metrics.causal_effects = Append(@, causal_effect),
                  !.training_metrics.epsilon_values = Append(@, eps)],
             raised |-> FALSE]

\* CausalRLAgent.learn from the push on; causal_effect is the effect already computed.
\* An exception of _train_step ends the call after the push and the step count: no
\* target update, no decay of epsilon, no entry in the two histories.
learn_from(ag, st, a, reward, next_state, done, causal_effect, ds, drop) ==
    LET pushed1 == [ag EXCEPT
                     !.replay_buffer =
                         push(@, Experience(st, a, shaped_reward(ag, reward, causal_effect),
                                            next_state, done, causal_effect)),
                     !.step_count = @ + 1]
        trained == IF train_due(pushed1)
                   THEN train_step(pushed1, ds, drop)
                   ELSE [agent |-> pushed1, raised |-> FALSE]
        synced  == IF trained.agent.step_count % trained.agent.target_update_freq = 0
                   THEN update_target_network(trained.agent)
                   ELSE trained.agent
        eps     == next_epsilon(synced)
    IN IF trained.raised THEN trained
       ELSE [agent |->
               [synced EXCEPT
                  !.epsilon = eps,
                  !.training_metrics.causal_effects = Append(@, causal_effect),
                  !.training_metrics.epsilon_values = Append(@, eps)],
             raised |-> FALSE]

\* CausalRLAgent.learn.  q is the outcome of the oracle's network query; the result
\* holds the agent after the call, whether the call raised (in the oracle: agent
\* untouched; in the training step: transition pushed and step counted, nothing else)
\* and whether it called the oracle.
learn(ag, v, b, st, a, reward, next_state, done, ctx, q, ds, drop) ==
    LET e == IF shapes(ag, a, ctx) THEN effect(v, b, action_name(a), ctx, q)
             ELSE [raised |-> FALSE, value |-> 0, queried |-> 0]
    IN IF e.raised THEN [agent |-> ag, raised |-> TRUE, causal_effect |-> 0,
                         called |-> TRUE]
       ELSE LET r == learn_from(ag, st, a, reward, next_state, done, e.value, ds, drop)
            IN [agent |-> r.agent, raised |-> r.raised, causal_effect |-> e.value,
                called |-> shapes(ag, a, ctx)]

\* an episode end that counts the episode and records no reward
episode_ended_unrecorded(ag, total_reward) == [ag EXCEPT !.episode_count = @ + 1]

\* CausalRLAgent.episode_ended
episode_ended(ag, total_reward) ==
    [ag EXCEPT !.episode_count = @ + 1,
               !.training_metrics.rewards = Append(@, total_reward)]

\* CausalRLAgent.save_model: the checkpoint written
save_model(ag) ==
    [q_network_state_dict |-> ag.q_network,
     target_network_state_dict |-> ag.target_network,
     optimizer_state_dict |-> ag.optimizer,
     training_metrics |-> ag.training_metrics,
     episode_count |-> ag.episode_count,
     step_count |-> ag.step_count,
     epsilon |-> ag.epsilon]

\* load_model that leaves the exploration rate of the loading agent
load_model_keep_epsilon(ag, ckpt) ==
    [ag EXCEPT !.q_network = ckpt.q_network_state_dict,
               !.target_network = ckpt.target_network_state_dict,
               !.optimizer = ckpt.optimizer_state_dict,
               !.training_metrics = ckpt.training_metrics,
               !.episode_count = ckpt.episode_count,
               !.step_count = ckpt.step_count]

\* CausalRLAgent.load_model
load_model(ag, ckpt) ==
    [ag EXCEPT !.q_network = ckpt.q_network_state_dict,
               !.target_network = ckpt.target_network_state_dict,
               !.optimizer = ckpt.optimizer_state_dict,
               !.training_metrics = ckpt.training_metrics,
               !.episode_count = ckpt.episode_count,
               !.step_count = ckpt.step_count,
               !.epsilon = ckpt.epsilon]

\* the entries of a checkpoint in the order load_model reads them
checkpoint_keys ==
    <<"q_network_state_dict", "target_network_state_dict", "optimizer_state_dict",
      "training_metrics", "episode_count", "step_count", "epsilon">>

\* CausalRLAgent.load_model on a checkpoint whose entry number missing is absent: the
\* assignments before the failing subscript have been made when KeyError is raised
load_model_raising(ag, ckpt, missing) ==
    [ag EXCEPT !.q_network = IF 1 < missing THEN ckpt.q_network_state_dict ELSE @,
               !.target_network = IF 2 < missing THEN ckpt.target_network_state_dict ELSE @,
               !.optimizer = IF 3 < missing THEN ckpt.optimizer_state_dict ELSE @,
               !.training_metrics = IF 4 < missing THEN ckpt.training_metrics ELSE @,
               !.episode_count = IF 5 < missing THEN ckpt.episode_count ELSE @,
               !.step_count = IF 6 < missing THEN ckpt.step_count ELSE @]

(***************************************************************************)
(* Components a specification does not exercise stay as constructed       *)
(***************************************************************************)
BaseConfig ==
    [action_size |-> Len(action_mapping), causal_oracle |-> FALSE,
     epsilon_start |-> EpsOne, epsilon_end |-> EpsOne \div 4, epsilon_decay |-> 1,
     causal_lambda |-> 1, use_action_masking |-> TRUE, use_reward_shaping |-> TRUE,
     buffer_size |-> 2, batch_size |-> 1, target_update_freq |-> 2]

NoCall == [op |-> "none", ctx |-> EmptyContext, given |-> NoMask, raised |-> FALSE,
           action |-> 0, mask |-> << >>, greedy |-> FALSE, causal_effect |-> 0,
           again |-> 0, same_q |-> TRUE, query |-> RaiseOutcome, called |-> FALSE]

NoCheckpoint == save_model(NewAgent(BaseConfig, 0, 0))

OtherAtRest ==
    /\ other = NewAgent(BaseConfig, 0, 0)
    /\ last_other = NoCall
    /\ checkpoint = NoCheckpoint
    /\ phase = "training"

AgentAtRest == agent = NewAgent(BaseConfig, 0, 0) /\ last = NoCall /\ OtherAtRest

BufferAtRest == rb = ReplayBuffer(0) /\ pushed = << >> /\ sampled = NoResult

(***************************************************************************)
(* The causal model as a state machine                                     *)
(***************************************************************************)
Obs(op, action, ctx, raised, feasible, value, legal, queried) ==
    [op |-> op, action |-> action, outcome |-> "", ctx |-> ctx, evidence |-> << >>,
     raised |-> raised, feasible |-> feasible, value |-> value, legal |-> legal,
     queried |-> queried, yes |-> "", no |-> "", label |-> "",
     est |-> "", failing |-> {}, check |-> "", result |-> << >>]

\* evidence mappings (variable -> label) a caller of estimate_causal_effect passes
Evidences(v) ==
    {convert_context(v, c).ctx :
        c \in {x \in Contexts : Cardinality(DOMAIN x) <= 1 /\ ~convert_context(v, x).raised}}

\* outcome variables queried: the primary outcome of each action and the default
Outcomes(v) == {get_primary_outcome(v, a) : a \in ActionNames \cup {"no_action"}}

NoObs == Obs("none", "", EmptyContext, FALSE, FALSE, 0, << >>, 0)

Idle == oq.op = "none"

OracleInit ==
    /\ variant \in Variants
    /\ dag = {}
    /\ built = FALSE
    /\ bn = NewInference
    /\ oq = NoObs
    /\ BufferAtRest
    /\ AgentAtRest

BuildHealthcareDag ==
    /\ Idle /\ ~built
    /\ dag' = build_healthcare_dag(dag, variant)
    /\ built' = TRUE
    /\ oq' = Obs("build", "", EmptyContext, FALSE, FALSE, 0, << >>, 0)
    /\ UNCHANGED <<variant, bn>>
    /\ UNCHANGED <<bvars, avars, rvars>>

\* variables whose estimate_cpd raises (missing from the data): none, or one
\* without parents and one with parents; read only when the loop runs
EstimateFailures(g, est) ==
    IF network_constructs(g) /\ est = "ok"
    THEN {F \cap Nodes(g) : F \in {{}, {"switch_supplier", "stockout_risk"}}}
    ELSE {{}}

CreateHealthcareCausalModel ==
    /\ Idle /\ ~built
    /\ \E withData \in BOOLEAN, est \in EstOutcomes, check \in CheckOutcomes :
         \E failing \in EstimateFailures(build_healthcare_dag(dag, variant), est) :
            LET g == build_healthcare_dag(dag, variant)
                r == create_inference(variant, g, withData, est, failing, check)
            IN /\ dag' = g
               /\ built' = TRUE
               /\ bn' = r.bn
               /\ oq' = Obs("create", "", EmptyContext, r.raised, FALSE, 0, << >>, 0)
    /\ UNCHANGED variant
    /\ UNCHANGED <<bvars, avars, rvars>>

Fit ==
    /\ Idle /\ built
    /\ bn.fits < MaxFits
    /\ \E est \in EstOutcomes, check \in CheckOutcomes :
         \E failing \in EstimateFailures(dag, est) :
            LET r == fit(variant, dag, bn, est, failing, check)
            IN /\ bn' = r.bn
               /\ oq' = [Obs("fit", "", EmptyContext, r.raised, FALSE, 0, << >>, 0)
                            EXCEPT !.est = est, !.failing = failing, !.check = check]
    /\ UNCHANGED <<variant, dag, built>>
    /\ UNCHANGED <<bvars, avars, rvars>>

EstimateCausalEffect ==
    /\ Idle /\ built
    /\ \E action \in ActionNames, outcome \in Outcomes(variant), ev \in Evidences(variant) :
         \E q \in QueryOutcomes(variant, outcome) :
              LET r == estimate_causal_effect(bn, action, outcome, ev, q)
              IN oq' = [Obs("estimate", action, EmptyContext, FALSE, FALSE, r.value,
                            << >>, r.queried) EXCEPT !.outcome = outcome, !.evidence = ev,
                                                     !.yes = q.yes, !.no = q.no]
    /\ UNCHANGED <<variant, dag, built, bn>>
    /\ UNCHANGED <<bvars, avars, rvars>>

OracleEffect ==
    /\ Idle /\ built
    /\ \E action \in ActionNames, ctx \in Contexts :
         \E q \in QueryOutcomes(variant, get_primary_outcome(variant, action)) :
              LET r == effect(variant, bn, action, ctx, q)
              IN oq' = Obs("effect", action, ctx, r.raised, FALSE, r.value, << >>, r.queried)
    /\ UNCHANGED <<variant, dag, built, bn>>
    /\ UNCHANGED <<bvars, avars, rvars>>

\* contexts given to uplift: the empty one and those of one key
UpliftContexts == {c \in Contexts : Cardinality(DOMAIN c) <= 1}

Uplift ==
    /\ Idle /\ built
    /\ \E action \in ActionNames, ctx \in UpliftContexts :
         \E q \in QueryOutcomes(variant, get_primary_outcome(variant, action)) :
              LET r == uplift(variant, bn, action, ctx, q)
              IN oq' = Obs("uplift", action, ctx, r.raised, FALSE, r.value, << >>, r.queried)
    /\ UNCHANGED <<variant, dag, built, bn>>
    /\ UNCHANGED <<bvars, avars, rvars>>

IsFeasible ==
    /\ Idle /\ built
    /\ \E action \in ActionNames, ctx \in Contexts :
         LET r == is_feasible(variant, action, ctx)
         IN oq' = Obs("is_feasible", action, ctx, r.raised, r.value, 0, << >>, 0)
    /\ UNCHANGED <<variant, dag, built, bn>>
    /\ UNCHANGED <<bvars, avars, rvars>>

LegalActions ==
    /\ Idle /\ built
    /\ \E ctx \in Contexts :
         LET r == legal_actions(variant, ctx)
         IN oq' = Obs("legal_actions", "", ctx, r.raised, FALSE, 0, r.value, 0)
    /\ UNCHANGED <<variant, dag, built, bn>>
    /\ UNCHANGED <<bvars, avars, rvars>>

\* values of a numeric data column (hundredths); no bin edge falls on a middle value
DataValues == {20, 60, 90}

\* numeric columns of the training data with at least two different values
Columns == {col \in [1..3 -> DataValues] : ColumnMin(col) < ColumnMax(col)}

\* variables whose numeric values the oracle discretizes at query time
DiscretizedVariables(v) ==
    IF v = "hc" THEN DOMAIN discretization_rules \cap DOMAIN variable_domains_hc
    ELSE DOMAIN variable_domains_legacy \cap CtxKeys

\* one value of a numeric column is discretized for the fit (label) and, as a context
\* value, by the oracle (evidence)
PreprocessData ==
    /\ Idle /\ built
    /\ \E k \in DiscretizedVariables(variant), col \in Columns, i \in 1..3 :
         LET ctx == [key \in {k} |-> Num(col[i])]
         IN oq' = [Obs("preprocess", "", ctx, FALSE, FALSE, 0, << >>, 0)
                     EXCEPT !.outcome = k,
                            !.evidence = convert_context(variant, ctx).ctx,
                            !.label = preprocess_label(col[i], col)]
    /\ UNCHANGED <<variant, dag, built, bn>>
    /\ UNCHANGED <<bvars, avars, rvars>>

CounterfactualAnalysis ==
    /\ Idle /\ built
    /\ \E action \in ActionNames, q \in CounterfactualOutcomes :
         oq' = [Obs("counterfactual", action, EmptyContext, FALSE, FALSE, 0, << >>, 0)
                  EXCEPT !.outcome = get_primary_outcome(variant, action),
                         !.result = counterfactual_analysis(
                                        bn, action, get_primary_outcome(variant, action),
                                        << >>, q)]
    /\ UNCHANGED <<variant, dag, built, bn>>
    /\ UNCHANGED <<bvars, avars, rvars>>

\* the caller takes the result of the last call
Return ==
    /\ ~Idle
    /\ oq' = NoObs
    /\ UNCHANGED <<variant, dag, built, bn>>
    /\ UNCHANGED <<bvars, avars, rvars>>

OracleNext ==
    \/ BuildHealthcareDag
    \/ CreateHealthcareCausalModel
    \/ Fit
    \/ EstimateCausalEffect
    \/ OracleEffect
    \/ Uplift
    \/ IsFeasible
    \/ LegalActions
    \/ PreprocessData
    \/ CounterfactualAnalysis
    \/ Return

SpecOracle == OracleInit /\ [][OracleNext]_vars

(***************************************************************************)
(* The replay buffer as a state machine                                   *)
(***************************************************************************)
\* transitions pushed by the buffer's driver
Experiences == {Experience(st, a, 0, st, FALSE, 0) : st \in {0, 1}, a \in {0, 5}}

\* raw draws handed to one sample call
Draws == 0..(MaxCapacity - 1)

DrawSeqs(k) == [1..k -> Draws]

BufferInit ==
    /\ variant = "hc"
    /\ dag = {}
    /\ built = FALSE
    /\ bn = NewInference
    /\ oq = NoObs
    /\ \E c \in 0..MaxCapacity : rb = ReplayBuffer(c)
    /\ pushed = << >>
    /\ sampled = NoResult
    /\ AgentAtRest

Push ==
    /\ Len(pushed) < MaxPushes
    /\ \E e \in Experiences :
         /\ rb' = push(rb, e)
         /\ pushed' = Append(pushed, e)
    /\ sampled' = NoResult
    /\ UNCHANGED <<ovars, avars, rvars>>

Sample ==
    /\ sampled = NoResult
    /\ \E batch_size \in 0..(MaxCapacity + 1) :
         \E ds \in DrawSeqs(batch_size) :
            sampled' = sample(rb, batch_size, ds)
    /\ UNCHANGED <<rb, pushed>>
    /\ UNCHANGED <<ovars, avars, rvars>>

BufferNext == Push \/ Sample

SpecBuffer == BufferInit /\ [][BufferNext]_vars

(***************************************************************************)
(* The agent as a state machine                                           *)
(***************************************************************************)
ActionSizes == {5, 6, 7}

\* constructor arguments that bear on act, the others as in BaseConfig
ActConfigs ==
    {[BaseConfig EXCEPT !.action_size = n, !.causal_oracle = o, !.use_action_masking = m,
                        !.use_reward_shaping = FALSE, !.epsilon_start = 0]
        : n \in ActionSizes, o \in BOOLEAN, m \in BOOLEAN}

\* the exploration schedule: start in {0, 1}, floor in {0, 1/4}, decay in {1/2, 1, 3/2};
\* and a start of -1 above a floor of -2, which nothing in __init__ rejects
EpsilonConfigs ==
    {[BaseConfig EXCEPT !.epsilon_start = e0, !.epsilon_end = e1, !.epsilon_decay = d]
        : e0 \in {0, EpsOne}, e1 \in {0, EpsOne \div 4}, d \in {1, 2, 3}}
    \cup {[BaseConfig EXCEPT !.epsilon_start = 0 - EpsOne, !.epsilon_end = 0 - 2 * EpsOne]}

\* buffer capacity, batch size and target synchronisation interval
CadenceConfigs ==
    {[BaseConfig EXCEPT !.buffer_size = c, !.batch_size = k, !.target_update_freq = f]
        : c \in {1, 2}, k \in {1, 2}, f \in {2, 3}}

\* reward shaping with and without an oracle
ShapingConfigs ==
    {[BaseConfig EXCEPT !.causal_oracle = o, !.use_reward_shaping = sh]
        : o \in BOOLEAN, sh \in BOOLEAN}

AgentConfigs == ActConfigs \cup EpsilonConfigs \cup CadenceConfigs \cup ShapingConfigs

AgentContexts ==
    {EmptyContext,
     [k \in {"inventory_level"} |-> Str("high")],
     [k \in {"supplier_reliability"} |-> Num(30)],
     [k \in {"supplier_reliability_score"} |-> NoneValue]}

\* mask arguments of act: nothing legal, only action 2 legal
MaskArgs(ag) ==
    {[i \in 1..ag.action_size |-> 0],
     [i \in 1..ag.action_size |-> IF i = 3 THEN 1 ELSE 0]}

PickDraws == 0..2

\* arguments and draws of one act call: the context is read only when the mask is
\* computed from the oracle, the state and the dropout draw only on the greedy branch,
\* the draw of np.random only on the exploring branch
ActInputs(ag) ==
    LET contexts == IF ag.use_action_masking /\ ag.causal_oracle THEN AgentContexts
                    ELSE {EmptyContext, [k \in {"inventory_level"} |-> Str("high")]}
        sources == {[ctx |-> c, mask |-> NoMask] : c \in contexts}
                   \cup {[ctx |-> EmptyContext, mask |-> m] : m \in MaskArgs(ag)}
        draws == {[r |-> r, st |-> st, drop |-> d, pick |-> 0]
                    : r \in {x \in RandomDraws : x > ag.epsilon}, st \in StateIds,
                      d \in DropDraws}
                 \cup {[r |-> r, st |-> 0, drop |-> 0, pick |-> k]
                    : r \in {x \in RandomDraws : ~(x > ag.epsilon)}, k \in PickDraws}
    IN {[src |-> x, draw |-> y] : x \in sources, y \in draws}

\* outcomes of the oracle's queries during learn
LearnQueries(v, a) ==
    LET dom == variable_domains(v)[get_primary_outcome(v, action_name(a))]
    IN {q \in QueryOutcomes(v, get_primary_outcome(v, action_name(a))) :
          q.kind = "raise" \/ (q.yes \in {dom[1], dom[2]} /\ q.no \in {dom[1], dom[2]})}

\* the action argument of learn, which learn does not check: 0 is switch_supplier, 5
\* is no_action and, for an agent of five actions, not a column of its network
LearnActions == {0, 5}

LearnContexts ==
    {EmptyContext,
     [k \in {"supplier_reliability"} |-> Num(30)],
     [k \in {"supplier_reliability_score"} |-> NoneValue]}

\* draws of the gradient step, read only on a step of the training interval
TrainDraws(ag) ==
    IF (ag.step_count + 1) % TrainEvery = 0
    THEN {[ds |-> ds, drop |-> d] : ds \in [1..ag.batch_size -> {0, 1}], d \in DropDraws}
    ELSE {[ds |-> [i \in 1..ag.batch_size |-> 0], drop |-> 0]}

\* the oracle handed to the constructor, as create_healthcare_causal_model returns it
OracleCreated ==
    /\ variant \in Variants
    /\ dag = build_healthcare_dag({}, variant)
    /\ built = TRUE
    /\ \E withData \in BOOLEAN :
         LET r == create_inference(variant, dag, withData, "ok", {}, "true")
         IN ~r.raised /\ bn = r.bn
    /\ oq = NoObs

\* the fitted state of the oracle varies where learn reads it (reward shaping)
AgentInit ==
    /\ OracleCreated
    /\ BufferAtRest
    /\ \E c \in AgentConfigs : agent = NewAgent(c, 0, 1)
    /\ agent.causal_oracle \/ variant = "hc"
    /\ (agent.causal_oracle /\ agent.use_reward_shaping) \/ (bn.fitted /\ bn.bn_model = 0)
    /\ last = NoCall
    /\ OtherAtRest

Returned == last.op = "none"

Act ==
    /\ Returned
    /\ \E i \in ActInputs(agent) :
         last' = act(agent, variant, i.draw.st, i.src.ctx, i.src.mask, i.draw.r,
                     i.draw.drop, i.draw.pick)
    /\ UNCHANGED <<agent, ovars, bvars, rvars>>

\* act is called twice in a row with the same state, context and mask, each call
\* drawing its own dropout mask, on a draw of random.random() that takes the greedy
\* branch; again is the action of the second call, same_q whether the two forward
\* passes gave the same Q-values
ActTwice ==
    /\ Returned
    /\ \E i \in {x \in ActInputs(agent) : /\ x.draw.r > agent.epsilon
                                          /\ x.src.mask = NoMask
                                          /\ x.src.ctx = EmptyContext},
          drop2 \in DropDraws :
         LET first == act(agent, variant, i.draw.st, i.src.ctx, i.src.mask, i.draw.r,
                          i.draw.drop, i.draw.pick)
             second == act(agent, variant, i.draw.st, i.src.ctx, i.src.mask, i.draw.r,
                           drop2, i.draw.pick)
         IN last' = [first EXCEPT
                       !.op = "act_twice",
                       !.again = second.action,
                       !.same_q = (forward(agent.q_network, agent.action_size, i.draw.st,
                                           i.draw.drop)
                                   = forward(agent.q_network, agent.action_size, i.draw.st,
                                             drop2))]
    /\ UNCHANGED <<agent, ovars, bvars, rvars>>

ActReturn ==
    /\ phase = "training"
    /\ ~Returned
    /\ last' = NoCall
    /\ UNCHANGED <<agent, ovars, bvars, rvars>>

Learn ==
    /\ Returned
    /\ phase = "training"
    /\ agent.step_count < MaxSteps
    /\ \E a \in LearnActions, ctx \in LearnContexts :
         \E q \in (IF shapes(agent, a, ctx) THEN LearnQueries(variant, a) ELSE {RaiseOutcome}),
            t \in TrainDraws(agent) :
            LET r == learn(agent, variant, bn, 0, a, 4, 1, FALSE, ctx, q, t.ds, t.drop)
            IN /\ agent' = r.agent
               /\ last' = [NoCall EXCEPT !.op = "learn", !.raised = r.raised,
                                         !.action = a, !.causal_effect = r.causal_effect,
                                         !.ctx = ctx, !.query = q, !.called = r.called]
    /\ UNCHANGED <<ovars, bvars, rvars>>

EpisodeEnded ==
    /\ Returned
    /\ phase = "training"
    /\ agent.episode_count < MaxEpisodes
    /\ agent' = episode_ended(agent, 4)
    /\ last' = [NoCall EXCEPT !.op = "episode_ended"]
    /\ UNCHANGED <<ovars, bvars, rvars>>

AgentNext == Act \/ ActTwice \/ ActReturn \/ Learn \/ EpisodeEnded

SpecAgent == AgentInit /\ [][AgentNext]_vars

\* The training loop calls learn after every step of the environment and its calls
\* return: strong fairness of the learn calls that return, written with the guard of
\* Learn for its enabling condition, and weak fairness of the return of a call.
LearnEnabled == Returned /\ phase = "training" /\ agent.step_count < MaxSteps

LearnReturned == last'.op = "learn" /\ ~last'.raised

SpecAgentLive ==
    /\ AgentInit /\ [][AgentNext]_vars
    /\ (<>[](~LearnEnabled)) \/ ([]<><<LearnReturned>>_vars)
    /\ WF_vars(ActReturn)

(***************************************************************************)
(* Checkpoint and resume: agent saves, other loads, both are driven alike *)
(***************************************************************************)
\* the agent that saves: batch sizes 1 and 2, with and without an oracle
ResumeConfigs ==
    {[BaseConfig EXCEPT !.causal_oracle = o, !.batch_size = k] : o \in BOOLEAN, k \in {1, 2}}

ResumeInit ==
    /\ OracleCreated
    /\ bn.inference_engine = 0
    /\ BufferAtRest
    /\ \E c \in ResumeConfigs :
         /\ agent = NewAgent(c, 0, 1)
         /\ other = NewAgent(c, 2, 3)
    /\ agent.causal_oracle \/ (variant = "hc" /\ bn.fitted)
    /\ last = NoCall
    /\ last_other = NoCall
    /\ checkpoint = NoCheckpoint
    /\ phase = "training"

SaveModel ==
    /\ phase = "training"
    /\ checkpoint' = save_model(agent)
    /\ phase' = "saved"
    /\ last' = NoCall
    /\ UNCHANGED <<agent, other, last_other, ovars, bvars>>

LoadModel ==
    /\ phase = "saved"
    /\ other' = load_model(other, checkpoint)
    /\ phase' = "resumed"
    /\ UNCHANGED <<agent, last, last_other, checkpoint, ovars, bvars>>

\* load_model is given a checkpoint file that lacks one entry and raises; the run
\* that wanted to resume ends there
LoadModelRaising ==
    /\ phase = "saved"
    /\ \E missing \in 1..Len(checkpoint_keys) :
         other' = load_model_raising(other, checkpoint, missing)
    /\ last_other' = [NoCall EXCEPT !.op = "load_model", !.raised = TRUE]
    /\ phase' = "load_failed"
    /\ UNCHANGED <<agent, last, checkpoint, ovars, bvars>>

\* both agents are given the same act call with the same draws
PairedAct ==
    /\ phase = "resumed"
    /\ Returned
    /\ \E i \in ActInputs(agent) \cup ActInputs(other) :
         /\ last' = act(agent, variant, i.draw.st, i.src.ctx, i.src.mask, i.draw.r,
                        i.draw.drop, i.draw.pick)
         /\ last_other' = act(other, variant, i.draw.st, i.src.ctx, i.src.mask, i.draw.r,
                              i.draw.drop, i.draw.pick)
    /\ UNCHANGED <<agent, other, checkpoint, phase, ovars, bvars>>

\* the calls of both agents have returned
PairedReturn ==
    /\ phase = "resumed"
    /\ ~Returned
    /\ last' = NoCall
    /\ last_other' = NoCall
    /\ UNCHANGED <<agent, other, checkpoint, phase, ovars, bvars>>

\* both agents are given the same learn call with the same draws
PairedLearn ==
    /\ phase = "resumed"
    /\ Returned
    /\ agent.step_count < MaxSteps
    /\ \E a \in LearnActions, ctx \in LearnContexts :
         \E q \in (IF shapes(agent, a, ctx) THEN LearnQueries(variant, a) ELSE {RaiseOutcome}),
            t \in TrainDraws(agent) \cup TrainDraws(other) :
            LET ra == learn(agent, variant, bn, 0, a, 4, 1, FALSE, ctx, q, t.ds, t.drop)
                rb2 == learn(other, variant, bn, 0, a, 4, 1, FALSE, ctx, q, t.ds, t.drop)
            IN /\ agent' = ra.agent
               /\ other' = rb2.agent
               /\ last' = [NoCall EXCEPT !.op = "learn", !.raised = ra.raised,
                                         !.action = a, !.causal_effect = ra.causal_effect]
               /\ last_other' = [NoCall EXCEPT !.op = "learn", !.raised = rb2.raised,
                                               !.action = a,
                                               !.causal_effect = rb2.causal_effect]
    /\ UNCHANGED <<checkpoint, phase, ovars, bvars>>

ResumeNext ==
    \/ Learn \/ EpisodeEnded \/ ActReturn \/ SaveModel \/ LoadModel \/ LoadModelRaising
    \/ PairedAct \/ PairedReturn \/ PairedLearn

SpecResume == ResumeInit /\ [][ResumeNext]_vars

(***************************************************************************)
(* Claims about the causal model (SpecOracle)                              *)
(***************************************************************************)

\* C2: for every context, legal_actions(C) is non-empty and contains the no-op action.
C2_LegalActionsHoldNoOp ==
    (oq.op = "legal_actions" /\ ~oq.raised) =>
        (oq.legal # << >> /\ "no_action" \in Range(oq.legal))

\* C3: in the healthcare_crl oracle, for a context that gives supplier_reliability_score a
\* number, switch_supplier is feasible exactly when the number does not discretize to
\* "high", and legal_actions lists switch_supplier exactly then.
C3_SwitchSupplierFollowsReliability ==
    LET k == "supplier_reliability_score"
        numeric == k \in DOMAIN oq.ctx /\ oq.ctx[k].t = "num"
        label == convert_context(variant, oq.ctx).ctx[k]
    IN /\ (variant = "hc" /\ oq.op = "is_feasible" /\ oq.action = "switch_supplier"
            /\ numeric /\ ~oq.raised)
          => (oq.feasible <=> label # "high")
       /\ (variant = "hc" /\ oq.op = "legal_actions" /\ numeric /\ ~oq.raised)
          => ("switch_supplier" \in Range(oq.legal) <=> label # "high")

\* C5: a call of estimate_causal_effect on a network whose fitted flag is false returns
\* 0.0, makes no inference query and leaves the network state unchanged.
C5_UnfittedEffectIsZero ==
    [][(~bn.fitted /\ oq'.op = "estimate")
        => (oq'.value = 0 /\ oq'.queried = 0 /\ bn' = bn)]_vars

\* C5 witness: after a fit that failed, an estimate with non-empty evidence returned.
C5_Witness ==
    /\ oq.op = "estimate" /\ ~bn.fitted /\ bn.fits > 0 /\ bn.bn_model > 0
    /\ oq.evidence # << >> /\ oq.value = 0

\* C10: the graph that build_healthcare_dag leaves has no directed cycle.
C10_DagIsAcyclic == built => ~HasCycle(dag)

(***************************************************************************)
(* Claims about the replay buffer (SpecBuffer)                             *)
(***************************************************************************)
Min(a, b) == IF a < b THEN a ELSE b

LastOf(sq, m) == SubSeq(sq, Len(sq) - m + 1, Len(sq))

\* C6: after n pushes into a buffer of capacity c the buffer holds exactly the last
\* min(n, c) pushed transitions in push order; occupancy never exceeds c.
C6_BufferHoldsLastPushes ==
    /\ Len(rb.buffer) <= rb.maxlen
    /\ rb.buffer = LastOf(pushed, Min(Len(pushed), rb.maxlen))

\* C6 witness: more pushes than the capacity, the evicted transition differing from the
\* ones kept.
C6_Witness ==
    /\ rb.maxlen = 2 /\ Len(pushed) = 4 /\ Len(rb.buffer) = 2
    /\ pushed[1] # pushed[3] /\ pushed[2] # pushed[4] /\ pushed[3] # pushed[4]

\* C7: sample(batch_size) raises when batch_size exceeds the occupancy and otherwise
\* returns batch_size transitions read from pairwise distinct positions of the buffer;
\* the buffer is unchanged either way.
C7_SampleResult ==
    [][(sampled'.op = "sample") =>
        LET k == sampled'.size
            n == Len(rb.buffer)
        IN /\ rb' = rb
           /\ (k > n => sampled'.raised)
           /\ (k <= n =>
                /\ ~sampled'.raised
                /\ Len(sampled'.batch) = k /\ Len(sampled'.positions) = k
                /\ \A i \in 1..k :
                     /\ sampled'.positions[i] \in 1..n
                     /\ sampled'.batch[i] = rb.buffer[sampled'.positions[i]]
                /\ \A i, j \in 1..k : i # j => sampled'.positions[i] # sampled'.positions[j])]_vars

\* C7 witness: a sample of two transitions from a buffer of three, and (in another call)
\* the refused request: here the accepted one, reading positions out of push order.
C7_Witness ==
    /\ sampled.op = "sample" /\ ~sampled.raised /\ sampled.size = 2 /\ Len(rb.buffer) = 3
    /\ sampled.positions[1] > sampled.positions[2]
    /\ sampled.batch[1] # sampled.batch[2]

\* a refused request: batch_size above the occupancy of a non-empty buffer
C7_WitnessRefused ==
    /\ sampled.op = "sample" /\ sampled.raised /\ sampled.size = 3 /\ Len(rb.buffer) = 2

(***************************************************************************)
(* Claims about the agent (SpecAgent)                                      *)
(***************************************************************************)
ActReturned == last.op = "act" /\ ~last.raised

\* C1: with action masking on and an oracle present, every action act returns has
\* mask bit 1, on the greedy and on the exploring branch; when act computed the mask
\* itself the bit of the no-op is 1 and the action returned is the no-op or an action
\* for which is_feasible returned true.
C1_ActReturnsLegalAction ==
    (ActReturned /\ agent.use_action_masking /\ agent.causal_oracle
        /\ \E i \in DOMAIN last.mask : last.mask[i] = 1)
    => /\ last.action + 1 \in DOMAIN last.mask
       /\ last.mask[last.action + 1] = 1
       /\ last.given = NoMask =>
            /\ last.mask[Len(action_mapping)] = 1
            /\ \/ action_name(last.action) = "no_action"
               \/ is_feasible(variant, action_name(last.action), last.ctx).value

\* a greedy call that had masked-out actions to avoid, the no-op not the only choice
C1_Witness ==
    /\ ActReturned /\ agent.use_action_masking /\ agent.causal_oracle
    /\ last.given = NoMask /\ last.greedy
    /\ last.mask[1] = 1 /\ last.mask[3] = 0
    /\ variant = "legacy"

\* C4 as stated: for every configuration, epsilon after a learn call is at most
\* epsilon before it and epsilon is never below epsilon_end.
C4_EpsilonNonIncreasingEveryConfig ==
    [][(last'.op = "learn" /\ ~last'.raised)
        => (agent'.epsilon <= agent.epsilon /\ agent.epsilon >= agent.epsilon_end
            /\ agent'.epsilon >= agent'.epsilon_end)]_vars

\* the exploration schedule the amended C4 covers: epsilon not negative and not below
\* the floor, epsilon_decay between 0 and 1 (held in halves: 2 is 1.0)
ScheduleInRange(ag) ==
    /\ ag.epsilon >= 0 /\ ag.epsilon >= ag.epsilon_end
    /\ ag.epsilon_decay >= 0 /\ ag.epsilon_decay <= 2

\* C4 amended: for a configuration with epsilon_start >= 0, epsilon_start >=
\* epsilon_end and 0 <= epsilon_decay <= 1, epsilon after every learn call, returning
\* or raising, is at most epsilon before it and at least epsilon_end; such a
\* configuration stays one under every call.
C4_EpsilonNonIncreasing ==
    /\ [][(last'.op = "learn" /\ ScheduleInRange(agent))
            => (agent'.epsilon <= agent.epsilon /\ agent'.epsilon >= agent'.epsilon_end)]_vars
    /\ [][ScheduleInRange(agent) => ScheduleInRange(agent')]_vars

\* epsilon has decayed from 1 and then stayed at a positive floor
C4_Witness ==
    /\ last.op = "learn" /\ ~last.raised
    /\ agent.epsilon_decay = 1 /\ agent.epsilon_end > 0
    /\ Len(agent.training_metrics.epsilon_values) >= 3
    /\ agent.training_metrics.epsilon_values[1] > agent.training_metrics.epsilon_values[2]
    /\ agent.training_metrics.epsilon_values[2] = agent.epsilon_end
    /\ agent.epsilon = agent.epsilon_end

(***************************************************************************)
(* Claims about checkpoints (SpecResume)                                   *)
(***************************************************************************)
\* agent has not changed since it wrote the checkpoint
AsSaved == agent.step_count = checkpoint.step_count

\* C8: after save_model on agent and load_model into other (same constructor
\* arguments, its own random initialisation), the online and target parameters, the
\* optimizer state, the metric histories, the episode and step counters and epsilon
\* of other equal those of agent at save time, and the same act call with the same
\* draws returns the same on both.
C8_CheckpointRoundTrip ==
    (phase = "resumed" /\ AsSaved)
    => /\ other.q_network = agent.q_network
       /\ other.target_network = agent.target_network
       /\ other.optimizer = agent.optimizer
       /\ other.training_metrics = agent.training_metrics
       /\ other.episode_count = agent.episode_count
       /\ other.step_count = agent.step_count
       /\ other.epsilon = agent.epsilon
       /\ last.op = "act" => last_other = last

\* a greedy act on both agents after a checkpoint that held a trained network
C8_Witness ==
    /\ phase = "resumed" /\ AsSaved
    /\ Len(checkpoint.training_metrics.losses) > 0
    /\ checkpoint.episode_count > 0
    /\ last.op = "act" /\ ~last.raised /\ last.greedy
    /\ last_other.op = "act" /\ last_other.action = last.action

\* C9: after the restore, agent (which went on) and other (which loaded) stay in
\* equal states under the same calls and draws: same step counter, same epsilon, same
\* loss history length and same number of gradient steps performed.
C9_ResumedAgentsStayEqual ==
    phase = "resumed"
    => /\ other.step_count = agent.step_count
       /\ other.epsilon = agent.epsilon
       /\ Len(other.training_metrics.losses) = Len(agent.training_metrics.losses)
       /\ other.optimizer = agent.optimizer

(***************************************************************************)
(* Further claims about the causal model (SpecOracle)                      *)
(***************************************************************************)
\* the bad outcome labels (the list the code names positive_states and never reads)
bad_states == {"high", "severe", "critical", "very_slow"}

BadMass(label) == IF label \in bad_states THEN 4 ELSE 0

\* C11: on a fitted network whose two queries succeeded, estimate_causal_effect
\* returns P(outcome bad | action = no) - P(outcome bad | action = yes), bad being
\* {high, severe, critical, very_slow}; so the value is positive whenever the action
\* lowers the probability of a bad outcome.
C11_EffectIsReductionOfBadOutcome ==
    (oq.op = "estimate" /\ bn.fitted /\ oq.queried = 2)
    => /\ oq.value = BadMass(oq.no) - BadMass(oq.yes)
       /\ BadMass(oq.yes) < BadMass(oq.no) => oq.value > 0

\* C12: CausalOracle.effect and CausalOracle.is_feasible never raise, whatever the
\* action and the context mapping: effect returns a number and is_feasible a boolean.
C12_OracleQueriesNeverRaise ==
    oq.op \in {"effect", "is_feasible"} => ~oq.raised

\* C13: fit returns normally for every input and ends either fitted, the inference
\* engine built from the model of this fit, or not fitted; no failure of network
\* construction, estimator construction, CPD estimation or validation is raised.
C13_FitNeverRaises ==
    oq.op = "fit"
    => /\ ~oq.raised
       /\ bn.fitted => (bn.bn_model # 0 /\ bn.inference_engine = bn.bn_model)

\* C14: the label _convert_context gives a numeric value of a variable at query time
\* is the label _preprocess_data gave that value at fit time.
C14_SameDiscretization ==
    oq.op = "preprocess" => oq.evidence[oq.outcome] = oq.label

(***************************************************************************)
(* Further claims about the agent (SpecAgent)                              *)
(***************************************************************************)
\* C15: with action masking and reward shaping off and epsilon = 0, act takes the
\* greedy branch for every value of the random draw, over the unmasked Q-values.
C15_ZeroEpsilonIsGreedy ==
    (ActReturned /\ ~agent.use_action_masking /\ ~agent.use_reward_shaping
        /\ agent.epsilon = 0 /\ last.given = NoMask)
    => /\ last.greedy
       /\ \A i \in DOMAIN last.mask : last.mask[i] = 1

\* C16: whatever the context and the action_size, the mask act computes with masking
\* on and an oracle present is computed without failure and has the no-op bit set.
C16_ComputedMaskHoldsNoOp ==
    (last.op = "act" /\ agent.use_action_masking /\ agent.causal_oracle
        /\ last.given = NoMask)
    => /\ ~last.raised
       /\ Len(last.mask) = agent.action_size
       /\ \E i \in DOMAIN last.mask :
            /\ i \in DOMAIN action_mapping /\ action_mapping[i] = "no_action"
            /\ last.mask[i] = 1

\* C17: two act calls on the same agent with the same state and mask, both on the
\* greedy branch and with no learn call between them, evaluate the same Q-values and
\* return the same action.
C17_ForwardPassIsDeterministic ==
    (last.op = "act_twice" /\ ~last.raised /\ last.greedy)
    => (last.same_q /\ last.again = last.action)

\* C18: every learn call pushes exactly one transition; its reward is the
\* environment reward plus causal_lambda times the causal effect and its
\* causal_effect field is that effect, which is the oracle's effect for the action
\* and the context when reward shaping is on, an oracle is present, the context is
\* not empty and the action is not the no-op, and 0 with no call of the oracle
\* otherwise.  (learn is given state 0, reward 4, next state 1, done false.)
C18_LearnPushesShapedTransition ==
    [][last'.op = "learn" =>
         LET called == /\ agent.use_reward_shaping
                       /\ agent.causal_oracle
                       /\ last'.ctx # EmptyContext
                       /\ action_name(last'.action) # "no_action"
             causalEffect ==
                 IF called
                 THEN effect(variant, bn, action_name(last'.action), last'.ctx,
                             last'.query).value
                 ELSE 0
         IN /\ ~last'.raised
            /\ last'.called = called
            /\ agent'.replay_buffer =
                   push(agent.replay_buffer,
                        Experience(0, last'.action,
                                   4 + (agent.causal_lambda * causalEffect) \div 2,
                                   1, FALSE, causalEffect))]_vars

\* every transition of the replay buffer holds an action act can return: an index
\* below action_size, a column of the network
BufferInRange(ag) ==
    \A i \in 1..Len(ag.replay_buffer.buffer) :
        ag.replay_buffer.buffer[i].action < ag.action_size

\* a learn call on a buffer of actions act can return, given such an action: what the
\* training loop does, which hands learn the action act returned
LearnInRange ==
    /\ last'.op = "learn"
    /\ last'.action < agent.action_size
    /\ BufferInRange(agent)

\* a learn call took one optimizer step on a sampled batch
GradientStep ==
    /\ agent'.optimizer = agent.optimizer + 1
    /\ Len(agent'.training_metrics.losses) = Len(agent.training_metrics.losses) + 1

\* a learn call left the online network, the optimizer and the losses alone
NoGradientStep ==
    /\ agent'.optimizer = agent.optimizer
    /\ agent'.q_network = agent.q_network
    /\ agent'.training_metrics.losses = agent.training_metrics.losses

\* C19: a learn call given an action act can return, as the training loop gives it,
\* takes a gradient step exactly when, after the push and the increment, the step
\* counter is a multiple of 4 and the buffer holds at least batch_size transitions,
\* and takes none otherwise; so the batch it samples is never larger than the buffer
\* (no such call raises after its push), and an agent whose buffer capacity is below
\* batch_size never takes a gradient step, whatever it is given.  The buffer holds
\* actions act can return from construction on for as long as learn is given such
\* actions.
C19_GradientStepCadence ==
    /\ BufferInRange(agent)
    /\ [][(BufferInRange(agent) /\ (last'.op = "learn" => LearnInRange))
           => BufferInRange(agent')]_vars
    /\ [][LearnInRange =>
            LET occupancy == Len(agent'.replay_buffer.buffer)
                pushed1 == agent'.step_count = agent.step_count + 1
                due == /\ pushed1
                       /\ agent'.step_count % 4 = 0
                       /\ occupancy >= agent.batch_size
            IN /\ due => (GradientStep /\ agent.batch_size <= occupancy)
               /\ ~due => NoGradientStep
               /\ pushed1 => ~last'.raised]_vars
    /\ [](agent.replay_buffer.maxlen < agent.batch_size
            => (agent.optimizer = 0 /\ agent.training_metrics.losses = << >>))

\* C19 witness: the fourth learn call of an agent with batch_size 2 found two
\* transitions in the buffer and took a gradient step.
C19_Witness ==
    /\ last.op = "learn" /\ ~last.raised
    /\ agent.step_count = 4
    /\ agent.batch_size = 2 /\ Len(agent.replay_buffer.buffer) = 2
    /\ agent.optimizer = 1 /\ Len(agent.training_metrics.losses) = 1

\* C20: the target network takes the online parameters in exactly the learn calls
\* whose incremented step counter is a multiple of target_update_freq, with or
\* without a gradient step in the call, and after a gradient step of the same call,
\* so that right after the call the target equals the online network; every other
\* learn call, act, and episode_ended leave the target network as it was.  The learn
\* calls are those given an action act can return, as the training loop gives it.
C20_TargetSyncCadence ==
    [][(last'.op = "learn" => LearnInRange) =>
         IF /\ last'.op = "learn"
            /\ agent'.step_count = agent.step_count + 1
            /\ agent'.step_count % agent.target_update_freq = 0
         THEN agent'.target_network = agent'.q_network
         ELSE agent'.target_network = agent.target_network]_vars

\* C20 witness: the fourth learn call took a gradient step and, the counter being a
\* multiple of target_update_freq = 2, copied the new online parameters to the target,
\* which an earlier copy (second call) had left at the initial online parameters.
C20_Witness ==
    /\ last.op = "learn" /\ ~last.raised
    /\ agent.step_count = 4 /\ agent.target_update_freq = 2
    /\ agent.optimizer = 1
    /\ agent.q_network # NewAgent(BaseConfig, 0, 1).q_network
    /\ agent.target_network = agent.q_network

(***************************************************************************)
(* Claims about the converted context and the graph (SpecOracle)           *)
(***************************************************************************)
\* C22: every value _convert_context puts out for a variable is one of the states
\* variable_domains declares for that variable, whichever rule produced it (threshold
\* rule, generic bucketing of a number, string passed through).
C22_ConvertedValuesInDomain ==
    (oq.op \in {"effect", "is_feasible"} /\ ~oq.raised)
    => LET converted == convert_context(variant, oq.ctx).ctx
       IN \A k \in DOMAIN converted :
             /\ k \in DOMAIN variable_domains(variant)
             /\ converted[k] \in Range(variable_domains(variant)[k])

\* every node of g has exactly one CPD in cpds: the estimate, or for a variable of
\* failing the uniform table over its domain, one column per combination of the
\* states of its parents, every entry 1 / |domain|
CpdsComplete(v, g, cpds, failing) ==
    \A n \in Nodes(g) :
       /\ Cardinality({c \in cpds : c.variable = n}) = 1
       /\ \A c \in cpds :
             c.variable = n =>
               IF n \in failing
               THEN /\ c.kind = "uniform"
                    /\ c.variable_card = Len(variable_domains(v)[n])
                    /\ c.one_over = Len(variable_domains(v)[n])
                    /\ c.evidence = predecessors(g, n)
                    /\ c.columns = prod_cards(v, predecessors(g, n))
               ELSE c.kind = "mle"

\* C23: once fit has gone through every variable, every node of the network has
\* exactly one CPD, the maximum-likelihood estimate or, where estimation failed, the
\* uniform CPD (probability 1/|domain| for each state, one column for each combination
\* of parent states); and fit sets the fitted flag only then and only when check_model
\* passed.
C23_EveryNodeHasOneCpd ==
    [][oq'.op = "fit" =>
         LET processed == network_constructs(dag) /\ oq'.est = "ok"
             complete == CpdsComplete(variant, dag, bn'.cpds, oq'.failing)
         IN /\ processed => complete
            /\ bn'.inference_engine = bn'.fits
                 => (bn'.fitted /\ processed /\ complete /\ oq'.check = "true")
            /\ (bn'.fitted /\ ~bn.fitted) => bn'.inference_engine = bn'.fits]_vars

\* C23 witness: a fit in which estimation failed for a variable with parents ended
\* fitted, that variable holding a uniform CPD with more than one column.
C23_Witness ==
    /\ oq.op = "fit" /\ ~oq.raised /\ bn.fitted /\ bn.inference_engine = bn.fits
    /\ \E c \in bn.cpds : c.kind = "uniform" /\ c.columns > 1 /\ c.variable \in oq.failing
    /\ \E c \in bn.cpds : c.kind = "mle"

\* C24: in every state of the network (fitted, not fitted, inference failing) the
\* result of counterfactual_analysis has the entries factual_probability,
\* counterfactual_probability and causal_effect, causal_effect being the
\* counterfactual minus the factual probability, and all three are 0 when the network
\* is not fitted or inference fails.
C24_CounterfactualHasThreeEntries ==
    oq.op = "counterfactual"
    => /\ DOMAIN oq.result =
             {"factual_probability", "counterfactual_probability", "causal_effect"}
       /\ oq.result["causal_effect"] =
             oq.result["counterfactual_probability"] - oq.result["factual_probability"]
       /\ (~bn.fitted \/ bn.inference_engine = 0)
             => \A k \in DOMAIN oq.result : oq.result[k] = 0

\* the model made by create_healthcare_causal_model(data=None) and not fitted since
PriorKnowledge == bn.fitted /\ bn.fits = 0

\* C27: in the prior-knowledge mode (model created without data) every call of
\* effect and of uplift returns 0, whatever the action and the context.
C27_PriorKnowledgeEffectIsZero ==
    (PriorKnowledge /\ oq.op \in {"effect", "uplift"})
    => (~oq.raised /\ oq.value = 0)

\* the context keys the five feasibility rules read
feasibility_keys ==
    {"supplier_reliability", "inventory_level", "stockout_risk", "transportation_capacity",
     "service_disruption"}

\* C28: in the healthcare_crl oracle no key the feasibility rules read is put out by
\* _convert_context, so for every context is_feasible is true for
\* increase_safety_stock alone and legal_actions returns exactly that action.
C28_FeasibilityIgnoresContext ==
    variant = "hc"
    => /\ oq.op \in {"is_feasible", "legal_actions"}
            => /\ ~oq.raised
               /\ DOMAIN convert_context(variant, oq.ctx).ctx \cap feasibility_keys = {}
       /\ oq.op = "is_feasible" => (oq.feasible <=> oq.action = "increase_safety_stock")
       /\ oq.op = "legal_actions" => oq.legal = <<"increase_safety_stock">>

\* C30: in the graph build_healthcare_dag leaves, in either variant, each of the five
\* action variables has no incoming edge, and the variable _get_primary_outcome names
\* for the action is reached from the action along directed edges; so removing the
\* edges into an action (intervening on it) leaves the graph that
\* estimate_causal_effect conditions in when it clamps the action as evidence.  The
\* graph is checked in the step that builds it and no later step changes it.
C30_ActionsAreRootsOfTheirOutcomes ==
    /\ ~built
    /\ [][built => (built' /\ dag' = dag /\ variant' = variant)]_vars
    /\ [][
           (~built /\ built') =>
               \A a \in ActionNames :
                   /\ a \in Nodes(dag')
                   /\ predecessors(dag', a) = {}
                   /\ get_primary_outcome(variant', a) \in descendants(dag', {a}, {})
                   /\ {e \in dag' : e[2] # a} = dag']_vars

\* C30 witness: the graph is built and the effect of an action was asked whose primary
\* outcome lies two edges away (legacy: increase_safety_stock -> inventory_level ->
\* stockout_risk), and of one whose primary outcome is a child of the action.
C30_Witness ==
    /\ built /\ oq.op = "effect"
    /\ \E a \in ActionNames :
          /\ <<a, get_primary_outcome(variant, a)>> \notin dag
          /\ get_primary_outcome(variant, a) \in descendants(dag, {a}, {})
    /\ \E a \in ActionNames : <<a, get_primary_outcome(variant, a)>> \in dag

(***************************************************************************)
(* Claims about the target network, the histories and the exploration rate *)
(* (SpecAgent)                                                             *)
(***************************************************************************)
\* C21: the target network is a time-delayed copy of the online network: it holds the
\* online parameters of the latest synchronization, or those of construction when
\* there was none.  No gradient step has changed the online network while
\* agent.optimizer = 0, so in those states the target must equal the online network.
C21_TargetIsDelayedCopy ==
    agent.optimizer = 0 => agent.target_network = agent.q_network

CountersMatch(ag) ==
    /\ Len(ag.training_metrics.causal_effects) = ag.step_count
    /\ Len(ag.training_metrics.epsilon_values) = ag.step_count
    /\ Len(ag.training_metrics.rewards) = ag.episode_count
    /\ Len(ag.training_metrics.losses) <= ag.step_count \div 4

C25_FailedLoadChangesNothing ==
    [][(last_other'.op = "load_model" /\ last_other'.raised) => other' = other]_vars

====
